---- MODULE Spec2Model ----
(***************************************************************************)
(* Model of frontend-testing-server-stubs: the serverManager registry      *)
(* (src/src/server-manager.ts) and the stubJsonResponse route handler      *)
(* (stub-json-response.ts, kept as src/unnamed/part_001).                  *)
(*                                                                         *)
(* JavaScript values are modelled as strings: a parsed value by a text in   *)
(* object notation ({key:value}, [item,item]), `undefined` by the string   *)
(* Undefined; status codes are integers.                                   *)
(***************************************************************************)
EXTENDS Integers, Sequences, FiniteSets, TLC

\* ------------------------------------------------------------------ bounds
MaxLoaderCalls == 2
MaxRequests == 3
MaxParsed == 1

\* --------------------------------------------------------------- registry
\* `null`, the initial value of both module-level slots.
Null == "null"

\* The MswServer objects test code can hand to the registry.
Handles == {"h1", "h2"}

\* Loader functions test code can register: "loadH1" is `() => server`,
\* "loadAny" is a factory that builds a server on each call and may throw.
Loaders == {"loadH1", "loadAny"}

Throws == "throws"

LoaderOutcomes(l) ==
  IF l = "loadH1" THEN {"h1"} ELSE Handles \cup {Throws}

NoError == "none"
ConfigError == "No MSW server configured. Call serverManager.setServer() or serverManager.setDefaultServerLoader() first."
LoaderError == "error thrown by the loader"

\* ------------------------------------------------------------ JS values
\* `undefined`, as a body, a response or an omitted option.
Undefined == "undefined"

\* An omitted status (`status?: number` left out): no HTTP status code.
NoStatus == 0 - 1

Min(a, b) == IF a < b THEN a ELSE b

\* The result of evaluating JavaScript code that may throw.
Returned(v) == [threw |-> FALSE, value |-> v]
Threw(v) == [threw |-> TRUE, value |-> v]

\* ------------------------------------------------------------- parseBody
\* The values of the content-type header the requests of the model carry;
\* "" is a request without the header (`headers.get(...) || ""`).
ContentTypes ==
  { "", "text/plain",
    "application/json", "application/json; charset=utf-8", "Application/JSON",
    "application/x-www-form-urlencoded", "APPLICATION/X-WWW-FORM-URLENCODED",
    "multipart/form-data; boundary=x", "Multipart/Form-Data; boundary=x",
    "multipart/form-data; boundary=x; type=application/json" }

\* String.prototype.includes on the content types of the model: the known
\* types each header value holds as a substring, letter for letter.
Contains(contentType) ==
  CASE contentType = "application/json" -> {"application/json"}
    [] contentType = "application/json; charset=utf-8" -> {"application/json"}
    [] contentType = "application/x-www-form-urlencoded" -> {"application/x-www-form-urlencoded"}
    [] contentType = "multipart/form-data; boundary=x" -> {"multipart/form-data"}
    [] contentType = "multipart/form-data; boundary=x; type=application/json" ->
         {"multipart/form-data", "application/json"}
    [] OTHER -> {}

includes(contentType, needle) == needle \in Contains(contentType)

\* The body texts of the model. A JSON text is written with ' for its double
\* quotes; a multipart body is written as its boundary lines and its parts.
Texts ==
  { "", "oops", "{'valid':true}", "{'valid':false}",
    "name=John&age=30", "tag=a&tag=b&tag=c",
    "--x|name=John|--x--", "--x|tag=a|name=John|tag=b|tag=c|--x--" }

\* JSON.parse / Request.json(): the texts that are JSON; any other text is a
\* SyntaxError.
JsonTexts == {"{'valid':true}", "{'valid':false}"}

JSONparse(text) ==
  CASE text = "{'valid':true}" -> Returned("{valid:true}")
    [] text = "{'valid':false}" -> Returned("{valid:false}")
    [] OTHER -> Threw(Undefined)

Pair(key, value) == [key |-> key, value |-> value]

\* new URLSearchParams(text): the name/value pairs in the order of the text,
\* split at "&" and at the first "=" of each piece.
URLSearchParams(text) ==
  CASE text = "" -> <<>>
    [] text = "name=John&age=30" -> <<Pair("name", "John"), Pair("age", "30")>>
    [] text = "tag=a&tag=b&tag=c" -> <<Pair("tag", "a"), Pair("tag", "b"), Pair("tag", "c")>>
    [] text = "--x|name=John|--x--" -> <<Pair("--x|name", "John|--x--")>>
    [] text = "--x|tag=a|name=John|tag=b|tag=c|--x--" ->
         <<Pair("--x|tag", "a|name=John|tag=b|tag=c|--x--")>>
    [] OTHER -> <<Pair(text, "")>>

\* Request.formData() of a multipart request: the fields in the order of the
\* body; a body that is not made of parts is a TypeError.
formData(text) ==
  CASE text = "--x|name=John|--x--" -> Returned(<<Pair("name", "John")>>)
    [] text = "--x|tag=a|name=John|tag=b|tag=c|--x--" ->
         Returned(<<Pair("tag", "a"), Pair("name", "John"), Pair("tag", "b"), Pair("tag", "c")>>)
    [] OTHER -> Threw(<<>>)

\* A property of a plain object: its key and its value, a scalar (one item)
\* or an array of items. An object is the sequence of its properties.
Scalar(key, value) == [key |-> key, array |-> FALSE, items |-> <<value>>]
Array(key, items) == [key |-> key, array |-> TRUE, items |-> items]

Has(object, key) == \E i \in DOMAIN object : object[i].key = key
Get(object, key) == object[CHOOSE i \in DOMAIN object : object[i].key = key]
Put(object, property) ==
  IF Has(object, property.key)
  THEN [i \in DOMAIN object |-> IF object[i].key = property.key THEN property ELSE object[i]]
  ELSE Append(object, property)

RECURSIVE join(_)
join(items) ==
  IF items = <<>> THEN ""
  ELSE IF Len(items) = 1 THEN items[1]
  ELSE items[1] \o "," \o join(Tail(items))

\* The text a value of the model is written as: {key:value,...}, an array as
\* [item,...]; the items are strings.
Object(object) ==
  "{" \o join([i \in DOMAIN object |->
                 object[i].key \o ":" \o
                 (IF object[i].array THEN "[" \o join(object[i].items) \o "]"
                  ELSE object[i].items[1])]) \o "}"

assignFirst(object, key, value) ==
  IF Has(object, key) THEN object ELSE Append(object, Scalar(key, value))

\* result[key] = value, on a plain object.
assign(object, key, value) == Put(object, Scalar(key, value))

\* Object.fromEntries(entries): each pair is assigned in turn, a later pair of
\* the same key replacing the value of an earlier one.
RECURSIVE fromEntries(_)
fromEntries(entries) ==
  IF entries = <<>> THEN <<>>
  ELSE LET last == entries[Len(entries)]
       IN assign(fromEntries(SubSeq(entries, 1, Len(entries) - 1)), last.key, last.value)

collectPairs(result, key, value) ==
  IF Has(result, key)
  THEN Put(result, Array(key, <<Get(result, key).items[Len(Get(result, key).items)], value>>))
  ELSE Put(result, Scalar(key, value))

\* The callback of formData.forEach: a repeated key is promoted to an array,
\* `Array.isArray(existing) ? [...existing, value] : [existing, value]`.
collect(result, key, value) ==
  IF Has(result, key)
  THEN Put(result, Array(key, IF Get(result, key).array
                              THEN Append(Get(result, key).items, value)
                              ELSE <<Get(result, key).items[1], value>>))
  ELSE Put(result, Scalar(key, value))

\* formData.forEach(callback), folding the fields into result.
RECURSIVE forEach(_, _)
forEach(entries, result) ==
  IF entries = <<>> THEN result
  ELSE forEach(Tail(entries), collect(result, Head(entries).key, Head(entries).value))

textFallbackStrict(text) ==
  IF text # "" THEN JSONparse(text) ELSE Returned(Undefined)

\* The fallback of parseBody: `if (text) { try { return JSON.parse(text) }
\* catch { return text } }`, else the function falls through to undefined.
textFallback(text) ==
  IF text # ""
  THEN IF JSONparse(text).threw THEN Returned(text) ELSE JSONparse(text)
  ELSE Returned(Undefined)

tryParseLenientJson(request) ==
  LET contentType == request.contentType IN
  IF includes(contentType, "application/json")
  THEN textFallback(request.text)
  ELSE IF includes(contentType, "application/x-www-form-urlencoded")
  THEN Returned(Object(fromEntries(URLSearchParams(request.text))))
  ELSE IF includes(contentType, "multipart/form-data")
  THEN IF formData(request.text).threw THEN Threw(Undefined)
       ELSE Returned(Object(forEach(formData(request.text).value, <<>>)))
  ELSE textFallback(request.text)

\* The try block of parseBody: the branch the content type selects, and
\* whether it threw.
tryParse(request) ==
  LET contentType == request.contentType IN
  IF includes(contentType, "application/json")
  THEN JSONparse(request.text)
  ELSE IF includes(contentType, "application/x-www-form-urlencoded")
  THEN Returned(Object(fromEntries(URLSearchParams(request.text))))
  ELSE IF includes(contentType, "multipart/form-data")
  THEN IF formData(request.text).threw THEN Threw(Undefined)
       ELSE Returned(Object(forEach(formData(request.text).value, <<>>)))
  ELSE textFallback(request.text)

parseBodyRawOnError(request) ==
  IF tryParse(request).threw THEN request.text ELSE tryParse(request).value

\* parseBody: whatever the try block throws is caught and the function
\* returns undefined.
parseBody(request) ==
  IF tryParse(request).threw THEN Undefined ELSE tryParse(request).value

\* ------------------------------------------------------- resolveProvider
\* A ResponseProvider<T>: a value, or a function of the ResponseContext.
Value(v) == [type |-> "value", name |-> "", value |-> v]
Function(name) == [type |-> "function", name |-> name, value |-> Undefined]
StatusValue(v) == [type |-> "value", name |-> "", value |-> v]
StatusFunction(name) == [type |-> "function", name |-> name, value |-> NoStatus]

\* The provider functions of the model, applied to a context:
\*   index       (ctx) => ({ index: ctx.callIndex })
\*   echo        (ctx) => ({ echo: ctx.body })
\*   strictEcho  (ctx) => ({ valid: ctx.body.valid })    TypeError when body is undefined
\*   valid       (ctx) => ctx.body?.valid ? 200 : 400
\*   strict      (ctx) => ctx.body.valid ? 200 : 400     TypeError when body is undefined
Apply(name, ctx) ==
  CASE name = "index" -> Returned("{index:" \o ToString(ctx.callIndex) \o "}")
    [] name = "echo" -> Returned("{echo:" \o ctx.body \o "}")
    [] name = "strictEcho" ->
         IF ctx.body = Undefined THEN Threw(Undefined) ELSE Returned("{echo:" \o ctx.body \o "}")
    [] name = "valid" -> Returned(IF ctx.body = "{valid:true}" THEN 200 ELSE 400)
    [] name = "strict" ->
         IF ctx.body = Undefined THEN Threw(NoStatus)
         ELSE Returned(IF ctx.body = "{valid:true}" THEN 200 ELSE 400)

resolveProviderCaught(provider, ctx) ==
  IF provider.type = "function"
  THEN Returned(Apply(provider.name, ctx).value)
  ELSE Returned(provider.value)

\* typeof provider === "function" ? provider(ctx) : provider
resolveProvider(provider, ctx) ==
  IF provider.type = "function" THEN Apply(provider.name, ctx) ELSE Returned(provider.value)

\* ------------------------------------------------------ stubJsonResponse
\* The `responses` option: left out (undefined), or a list of entries.
Absent == [given |-> FALSE, list |-> <<>>]
List(entries) == [given |-> TRUE, list |-> entries]

Entry(response, status) == [response |-> response, status |-> status]

Options(response, status, responses) ==
  [response |-> response, status |-> status, responses |-> responses]

\* The StubJsonResponseOptions test code registers.
Configs ==
  { Options(Value("users"), StatusValue(NoStatus), Absent),
    Options(Value("notfound"), StatusValue(404), List(<<>>)),
    Options(Function("index"), StatusFunction("strict"), Absent),
    Options(Function("strictEcho"), StatusFunction("valid"), Absent),
    Options(Value("users"), StatusValue(404),
            List(<<Entry("timeout", 503), Entry("success", NoStatus)>>)),
    Options(Function("index"), StatusFunction("strict"), List(<<Entry("only", 503)>>)) }

\* The closures stubJsonResponse can create: one per registration, whatever
\* its path and method.
StubIds == {1, 2}

\* Every request of the model: each content type with each body text.
ParseRequests == {[contentType |-> c, text |-> t] : c \in ContentTypes, t \in Texts}

\* The requests the interception engine hands to a handler.
Requests ==
  { [contentType |-> "application/json", text |-> "{'valid':true}"],
    [contentType |-> "", text |-> ""] }

defaultStatusKept(status) == status

\* `status = 200`: the default of the destructured option.
defaultStatus(status) ==
  IF status.type = "value" /\ status.value = NoStatus THEN StatusValue(200) ELSE status

sequentialLong(responses) == responses.given /\ Len(responses.list) > 1

\* responses && responses.length > 0
sequential(responses) == responses.given /\ Len(responses.list) > 0

clampWrap(index, length) == index % length

\* Math.min(callIndex, responses.length - 1)
clamp(index, length) == Min(index, length - 1)

\* responses[idx].status ?? 200
statusOrDefault(status) == IF status = NoStatus THEN 200 ELSE status

Response(body, status) == [kind |-> "response", body |-> body, status |-> status]
Failure == [kind |-> "error", body |-> Undefined, status |-> NoStatus]

contextByArrival(request, body, index) == [body |-> body, callIndex |-> request.id - 1]

contextAfterIncrement(request, body, index) == [body |-> body, callIndex |-> index + 1]

\* const ctx: ResponseContext = {..., body, ..., callIndex}. The url, method,
\* headers and params fields are copied from the request and stay in it.
context(request, body, index) == [body |-> body, callIndex |-> index]

\* The RequestCall handed to spy: {...ctx, request}.
Call(ctx, request) == [body |-> ctx.body, callIndex |-> ctx.callIndex, request |-> request]

\* The response computation of one handler run; index is the value of
\* callIndex when it runs. invoked lists the provider functions called.
compute(options, ctx, index) ==
  LET responses == options.responses
      idx == clamp(index, Len(responses.list))
      finalResponse == resolveProvider(options.response, ctx)
      finalStatus == resolveProvider(options.status, ctx)
      invokedResponse == IF options.response.type = "function" THEN <<"response">> ELSE <<>>
      invokedStatus == IF options.status.type = "function" THEN <<"status">> ELSE <<>>
  IN IF sequential(responses)
     THEN [threw |-> FALSE,
           response |-> responses.list[idx + 1].response,
           status |-> statusOrDefault(responses.list[idx + 1].status),
           invoked |-> <<>>]
     ELSE IF finalResponse.threw
     THEN [threw |-> TRUE, response |-> Undefined, status |-> NoStatus,
           invoked |-> invokedResponse]
     ELSE IF finalStatus.threw
     THEN [threw |-> TRUE, response |-> Undefined, status |-> NoStatus,
           invoked |-> invokedResponse \o invokedStatus]
     ELSE [threw |-> FALSE, response |-> finalResponse.value, status |-> finalStatus.value,
           invoked |-> invokedResponse \o invokedStatus]

\* One call of a provider function, as the function sees it: the callIndex of
\* its context and the number of calls the spy holds at that moment.
Invocation(provider, ctx, request, recorded) ==
  [provider |-> provider, callIndex |-> ctx.callIndex, request |-> request.id,
   recorded |-> recorded]

VARIABLES
  serverInstance,        \* let serverInstance: MswServer | null
  defaultServerLoader,   \* let defaultServerLoader: (() => MswServer) | null
  ret,                   \* outcome of the last call of the public API
  loaderLog,             \* loader invocations since the last reset(), in order
  setup,                 \* the setup calls made since the last reset()
  cleared,               \* the setup calls the last reset() wiped out
  lastSet,               \* handle of the last setServer() since the last reset()
  got,                   \* the last two handles getServer() returned since setServer()/reset()
  handlers,              \* per server, the stubs whose handler it was given by use()
  stubs,                 \* the options of each registered stub, in registration order
  callIndex,             \* per stub: let callIndex
  spy,                   \* per stub: the calls recorded by spy, in order
  out,                   \* per stub: what each resumed handler run ended with, in order
  invocations,           \* per stub: the provider functions invoked, in order
  inflight,              \* handler runs suspended at `await parseBody(request)`
  arrived                \* number of requests dispatched to handlers

registry == <<serverInstance, defaultServerLoader, ret, loaderLog, setup, cleared, lastSet, got>>
routes == <<handlers, stubs, callIndex, spy, out, invocations, inflight, arrived>>
vars == <<registry, routes>>

Ret(op, error, value) == [op |-> op, error |-> error, value |-> value]

\* The last two of the handles getServer() has returned.
Got(handle) == IF got = <<>> THEN <<handle>> ELSE <<got[Len(got)], handle>>

\* getServer(), given the outcome o the loader would produce if invoked.
\* inst is the value of serverInstance afterwards, invoked the loader calls made.
getServerNoCache(o) ==
  IF serverInstance = Null
  THEN IF defaultServerLoader # Null
       THEN IF o = Throws
            THEN [error |-> LoaderError, value |-> Null, inst |-> serverInstance,
                  invoked |-> <<[loader |-> defaultServerLoader, outcome |-> o]>>]
            ELSE [error |-> NoError, value |-> o, inst |-> serverInstance,
                  invoked |-> <<[loader |-> defaultServerLoader, outcome |-> o]>>]
       ELSE [error |-> ConfigError, value |-> Null, inst |-> serverInstance,
             invoked |-> <<>>]
  ELSE [error |-> NoError, value |-> serverInstance, inst |-> serverInstance,
        invoked |-> <<>>]

getServerLoaderFirst(o) ==
  IF defaultServerLoader # Null
  THEN IF o = Throws
       THEN [error |-> LoaderError, value |-> Null, inst |-> serverInstance,
             invoked |-> <<[loader |-> defaultServerLoader, outcome |-> o]>>]
       ELSE [error |-> NoError, value |-> o, inst |-> o,
             invoked |-> <<[loader |-> defaultServerLoader, outcome |-> o]>>]
  ELSE IF serverInstance # Null
  THEN [error |-> NoError, value |-> serverInstance, inst |-> serverInstance,
        invoked |-> <<>>]
  ELSE [error |-> ConfigError, value |-> Null, inst |-> serverInstance,
        invoked |-> <<>>]

getServer(o) ==
  IF serverInstance = Null
  THEN IF defaultServerLoader # Null
       THEN IF o = Throws
            THEN [error |-> LoaderError, value |-> Null, inst |-> serverInstance,
                  invoked |-> <<[loader |-> defaultServerLoader, outcome |-> o]>>]
            ELSE [error |-> NoError, value |-> o, inst |-> o,
                  invoked |-> <<[loader |-> defaultServerLoader, outcome |-> o]>>]
       ELSE [error |-> ConfigError, value |-> Null, inst |-> serverInstance,
             invoked |-> <<>>]
  ELSE [error |-> NoError, value |-> serverInstance, inst |-> serverInstance,
        invoked |-> <<>>]

\* The outcomes the stored loader can produce (a dummy when none is stored).
Outcomes == IF defaultServerLoader = Null THEN {Null} ELSE LoaderOutcomes(defaultServerLoader)

hasServerInstanceOnly == serverInstance # Null

hasServer == serverInstance # Null \/ defaultServerLoader # Null

\* The handler body from the resumption after `await parseBody(request)` to
\* its end, run by stub s on a request: no suspension point lies in between.
handlerSpyLast(s, request) ==
  LET options == stubs[s]
      body == parseBody(request)
      ctx == context(request, body, callIndex[s])
      c == compute(options, ctx, callIndex[s])
      log == IF c.threw THEN spy[s] ELSE Append(spy[s], Call(ctx, request))
  IN [spy |-> log,
      callIndex |-> IF c.threw THEN callIndex[s] ELSE callIndex[s] + 1,
      invoked |-> [i \in 1..Len(c.invoked) |->
                     Invocation(c.invoked[i], ctx, request, Len(spy[s]))],
      result |-> IF c.threw THEN Failure ELSE Response(c.response, c.status)]

handlerAlwaysCounts(s, request) ==
  LET options == stubs[s]
      body == parseBody(request)
      ctx == context(request, body, callIndex[s])
      log == Append(spy[s], Call(ctx, request))
      c == compute(options, ctx, callIndex[s])
  IN [spy |-> log,
      callIndex |-> callIndex[s] + 1,
      invoked |-> [i \in 1..Len(c.invoked) |->
                     Invocation(c.invoked[i], ctx, request, Len(log))],
      result |-> IF c.threw THEN Failure ELSE Response(c.response, c.status)]

handlerLostUpdate(s, request) ==
  LET options == stubs[s]
      body == parseBody(request)
      ctx == context(request, body, callIndex[s])
      log == Append(spy[s], Call(ctx, request))
      c == compute(options, ctx, callIndex[s])
      overlapped == \E run \in inflight : run.stub = s /\ run.request.id # request.id
  IN [spy |-> log,
      callIndex |-> IF c.threw \/ overlapped THEN callIndex[s] ELSE callIndex[s] + 1,
      invoked |-> [i \in 1..Len(c.invoked) |->
                     Invocation(c.invoked[i], ctx, request, Len(log))],
      result |-> IF c.threw THEN Failure ELSE Response(c.response, c.status)]

handler(s, request) ==
  LET options == stubs[s]
      body == parseBody(request)
      ctx == context(request, body, callIndex[s])
      log == Append(spy[s], Call(ctx, request))
      c == compute(options, ctx, callIndex[s])
  IN [spy |-> log,
      callIndex |-> IF c.threw THEN callIndex[s] ELSE callIndex[s] + 1,
      invoked |-> [i \in 1..Len(c.invoked) |->
                     Invocation(c.invoked[i], ctx, request, Len(log))],
      result |-> IF c.threw THEN Failure ELSE Response(c.response, c.status)]

Init ==
  /\ serverInstance = Null
  /\ defaultServerLoader = Null
  /\ ret = Ret("init", NoError, Null)
  /\ loaderLog = <<>>
  /\ setup = {}
  /\ cleared = {}
  /\ lastSet = Null
  /\ got = <<>>
  /\ handlers = [h \in Handles |-> <<>>]
  /\ stubs = <<>>
  /\ callIndex = <<>>
  /\ spy = <<>>
  /\ out = <<>>
  /\ invocations = <<>>
  /\ inflight = {}
  /\ arrived = 0

SetDefaultServerLoaderInvalidates(loader) ==
  /\ defaultServerLoader' = loader
  /\ serverInstance' = IF lastSet = Null THEN Null ELSE serverInstance
  /\ ret' = Ret("setDefaultServerLoader", NoError, Null)
  /\ setup' = setup \cup {"setDefaultServerLoader"}
  /\ UNCHANGED <<loaderLog, cleared, lastSet, got, routes>>

\* serverManager.setDefaultServerLoader(loader)
SetDefaultServerLoader(loader) ==
  /\ defaultServerLoader' = loader
  /\ ret' = Ret("setDefaultServerLoader", NoError, Null)
  /\ setup' = setup \cup {"setDefaultServerLoader"}
  /\ UNCHANGED <<serverInstance, loaderLog, cleared, lastSet, got, routes>>

GetServerDropsLoader(o) ==
  LET g == getServer(o) IN
  /\ Len(loaderLog) + Len(g.invoked) <= MaxLoaderCalls
  /\ serverInstance' = g.inst
  /\ defaultServerLoader' = IF g.error = LoaderError THEN Null ELSE defaultServerLoader
  /\ ret' = Ret("getServer", g.error, g.value)
  /\ loaderLog' = loaderLog \o g.invoked
  /\ got' = IF g.error = NoError THEN Got(g.value) ELSE got
  /\ UNCHANGED <<setup, cleared, lastSet, routes>>

\* serverManager.getServer(), its loader (if it is invoked) ending as o.
GetServer(o) ==
  LET g == getServer(o) IN
  /\ Len(loaderLog) + Len(g.invoked) <= MaxLoaderCalls
  /\ serverInstance' = g.inst
  /\ ret' = Ret("getServer", g.error, g.value)
  /\ loaderLog' = loaderLog \o g.invoked
  /\ got' = IF g.error = NoError THEN Got(g.value) ELSE got
  /\ UNCHANGED <<defaultServerLoader, setup, cleared, lastSet, routes>>

SetServer(server) ==
  /\ serverInstance' = server
  /\ ret' = Ret("setServer", NoError, Null)
  /\ setup' = setup \cup {"setServer"}
  /\ lastSet' = server
  /\ got' = <<>>
  /\ UNCHANGED <<defaultServerLoader, loaderLog, cleared, routes>>

HasServer ==
  /\ ret' = Ret("hasServer", NoError, IF hasServer THEN "true" ELSE "false")
  /\ UNCHANGED <<serverInstance, defaultServerLoader, loaderLog, setup, cleared, lastSet,
                 got, routes>>

ResetInstanceOnly ==
  /\ serverInstance' = Null
  /\ ret' = Ret("reset", NoError, Null)
  /\ loaderLog' = <<>>
  /\ setup' = {}
  /\ cleared' = setup
  /\ lastSet' = Null
  /\ got' = <<>>
  /\ UNCHANGED <<defaultServerLoader, routes>>

ResetCounters ==
  /\ serverInstance' = Null
  /\ defaultServerLoader' = Null
  /\ ret' = Ret("reset", NoError, Null)
  /\ loaderLog' = <<>>
  /\ setup' = {}
  /\ cleared' = setup
  /\ lastSet' = Null
  /\ got' = <<>>
  /\ callIndex' = [t \in DOMAIN callIndex |-> 0]
  /\ UNCHANGED <<handlers, stubs, spy, out, invocations, inflight, arrived>>

\* serverManager.reset(): both slots back to null; the handlers already given
\* to a server, and their closures, are out of its reach.
Reset ==
  /\ serverInstance' = Null
  /\ defaultServerLoader' = Null
  /\ ret' = Ret("reset", NoError, Null)
  /\ loaderLog' = <<>>
  /\ setup' = {}
  /\ cleared' = setup
  /\ lastSet' = Null
  /\ got' = <<>>
  /\ UNCHANGED routes

\* stubJsonResponse(options): builds spy, callIndex and the handler, then
\* serverManager.getServer().use(handler); nothing is kept when getServer() throws.
StubJsonResponse(options, o) ==
  LET g == getServer(o) IN
  /\ Len(stubs) < Cardinality(StubIds)
  /\ Len(loaderLog) + Len(g.invoked) <= MaxLoaderCalls
  /\ serverInstance' = g.inst
  /\ ret' = Ret("stubJsonResponse", g.error, g.value)
  /\ loaderLog' = loaderLog \o g.invoked
  /\ got' = IF g.error = NoError THEN Got(g.value) ELSE got
  /\ UNCHANGED <<defaultServerLoader, setup, cleared, lastSet, inflight, arrived>>
  /\ IF g.error = NoError
     THEN /\ stubs' = Append(stubs, [options |-> options,
                                      response |-> options.response,
                                      status |-> defaultStatus(options.status),
                                      responses |-> options.responses])
          /\ callIndex' = Append(callIndex, 0)
          /\ spy' = Append(spy, <<>>)
          /\ out' = Append(out, <<>>)
          /\ invocations' = Append(invocations, <<>>)
          /\ handlers' = [handlers EXCEPT ![g.value] = Append(@, Len(stubs) + 1)]
     ELSE UNCHANGED <<handlers, stubs, callIndex, spy, out, invocations>>

\* The interception engine matches a request to stub s and calls its handler,
\* which runs up to `await parseBody(request)`.
Arrive(s, request) ==
  /\ arrived < MaxRequests
  /\ arrived' = arrived + 1
  /\ inflight' = inflight \cup
       {[stub |-> s,
         request |-> [id |-> arrived + 1, contentType |-> request.contentType,
                      text |-> request.text]]}
  /\ UNCHANGED <<registry, handlers, stubs, callIndex, spy, out, invocations>>

ResumeSharedCounter(run) ==
  LET s == run.stub
      h == handler(s, run.request) IN
  /\ inflight' = inflight \ {run}
  /\ spy' = [spy EXCEPT ![s] = h.spy]
  /\ callIndex' = [t \in DOMAIN callIndex |-> h.callIndex]
  /\ invocations' = [invocations EXCEPT ![s] = @ \o h.invoked]
  /\ out' = [out EXCEPT ![s] = Append(@, [request |-> run.request.id, result |-> h.result])]
  /\ UNCHANGED <<registry, handlers, stubs, arrived>>

\* A suspended handler run is resumed with the parsed body and runs to its end.
Resume(run) ==
  LET s == run.stub
      h == handler(s, run.request) IN
  /\ inflight' = inflight \ {run}
  /\ spy' = [spy EXCEPT ![s] = h.spy]
  /\ callIndex' = [callIndex EXCEPT ![s] = h.callIndex]
  /\ invocations' = [invocations EXCEPT ![s] = @ \o h.invoked]
  /\ out' = [out EXCEPT ![s] = Append(@, [request |-> run.request.id, result |-> h.result])]
  /\ UNCHANGED <<registry, handlers, stubs, arrived>>

\* The serverManager API, called in any order.
Next ==
  \/ \E loader \in Loaders : SetDefaultServerLoader(loader)
  \/ \E o \in Outcomes : GetServer(o)
  \/ \E server \in Handles : SetServer(server)
  \/ HasServer
  \/ Reset

Spec == Init /\ [][Next]_vars

\* Route stubs at work: the registry as the setup hook of the test suites
\* leaves it, serverManager.setServer(server), then registrations and
\* intercepted requests in any order.
InitStubs ==
  /\ serverInstance = "h1"
  /\ defaultServerLoader = Null
  /\ ret = Ret("setServer", NoError, Null)
  /\ loaderLog = <<>>
  /\ setup = {"setServer"}
  /\ cleared = {}
  /\ lastSet = "h1"
  /\ got = <<>>
  /\ handlers = [h \in Handles |-> <<>>]
  /\ stubs = <<>>
  /\ callIndex = <<>>
  /\ spy = <<>>
  /\ out = <<>>
  /\ invocations = <<>>
  /\ inflight = {}
  /\ arrived = 0

NextStubs ==
  \/ \E options \in Configs, o \in Outcomes : StubJsonResponse(options, o)
  \/ \E s \in 1..Len(stubs), request \in Requests : Arrive(s, request)
  \/ \E run \in inflight : Resume(run)

SpecStubs == InitStubs /\ [][NextStubs]_vars

\* The options of the stubs of a test whose teardown runs between requests:
\* a static stub and a stub whose status function throws on a missing body.
TeardownConfigs ==
  { Options(Value("users"), StatusValue(NoStatus), Absent),
    Options(Function("index"), StatusFunction("strict"), Absent) }

\* Requests, registrations and the teardown and setup hooks
\* (serverManager.reset(), serverManager.setServer(server)) in any order.
NextTeardown ==
  \/ \E options \in TeardownConfigs, o \in Outcomes : StubJsonResponse(options, o)
  \/ \E s \in 1..Len(stubs), request \in Requests : Arrive(s, request)
  \/ \E run \in inflight : Resume(run)
  \/ Reset
  \/ SetServer("h1")

SpecTeardown == InitStubs /\ [][NextTeardown]_vars

\* Registrations on a registry test code has not given a server: empty, or
\* holding a loader only.
NextRegister ==
  \/ \E loader \in Loaders : SetDefaultServerLoader(loader)
  \/ \E options \in TeardownConfigs, o \in Outcomes : StubJsonResponse(options, o)
  \/ Reset

SpecRegister == Init /\ [][NextRegister]_vars

\* Body parsing: one stub is registered, then requests of every content type
\* and body reach its handler.
NextParse ==
  \/ \E options \in Configs, o \in Outcomes : stubs = <<>> /\ StubJsonResponse(options, o)
  \/ \E request \in ParseRequests : stubs # <<>> /\ arrived < MaxParsed /\ Arrive(1, request)
  \/ \E run \in inflight : Resume(run)

SpecParse == InitStubs /\ [][NextParse]_vars

\* ---------------------------------------------------------------- claims
GetServerStep == \E o \in Outcomes : GetServer(o)

IsSequential(options) == options.responses.given /\ Len(options.responses.list) >= 1

\* C1: a stub with a sequential list of N >= 1 entries answers its k-th
\* handled request with the response and status of entry min(k, N); an entry
\* without status is answered with 200. It never wraps and never fails.
C1_SequentialResponses ==
  \A s \in 1..Len(stubs) :
    LET list == stubs[s].options.responses.list
        N == Len(list)
    IN IsSequential(stubs[s].options) =>
         \A k \in 1..Len(out[s]) :
           LET entry == list[IF k <= N THEN k ELSE N] IN
           /\ out[s][k].result.kind = "response"
           /\ out[s][k].result.body = entry.response
           /\ out[s][k].result.status = IF entry.status = NoStatus THEN 200 ELSE entry.status

\* C1 witness: a list of two entries has answered a third request with its
\* last entry, whose status is omitted.
C1_Witness ==
  \E s \in 1..Len(stubs) :
    /\ Len(stubs[s].options.responses.list) = 2
    /\ Len(out[s]) = 3
    /\ out[s][1].result = Response("timeout", 503)
    /\ out[s][3].result = Response("success", 200)

\* C2 as stated: the callIndex a dynamic response function observes is the
\* zero-based position of its request among all requests the registration
\* has matched (the position of its record in the call log).
C2_Original ==
  \A s \in 1..Len(stubs) :
    \A i \in 1..Len(invocations[s]) :
      invocations[s][i].provider = "response" =>
        invocations[s][i].callIndex = invocations[s][i].recorded - 1

\* C2 amended: the callIndex a dynamic response function observes is the
\* number of earlier requests of that registration whose response computation
\* completed without throwing, whatever happens on other routes.
C2_CallIndexCountsCompleted ==
  \A s \in 1..Len(stubs) :
    \A i \in 1..Len(invocations[s]) :
      LET inv == invocations[s][i] IN
      inv.provider = "response" =>
        /\ inv.recorded \in 1..Len(out[s])
        /\ inv.callIndex =
             Cardinality({j \in 1..(inv.recorded - 1) : out[s][j].result.kind = "response"})

\* C2 witness: a response function ran for the second request of its stub and
\* observed 0, the first having failed, while another stub handled a request.
C2_Witness ==
  \E s \in 1..Len(stubs), t \in 1..Len(stubs) :
    /\ s # t
    /\ Len(out[t]) >= 1
    /\ \E i \in 1..Len(invocations[s]) :
         /\ invocations[s][i].provider = "response"
         /\ invocations[s][i].recorded = 2
         /\ invocations[s][i].callIndex = 0

\* C3 as stated: a stub configured with a static response and a static
\* status (200 when none is given) answers every request with exactly that
\* body and status, and its call log holds one record per handled request.
C3_Original ==
  \A s \in 1..Len(stubs) :
    LET o == stubs[s].options IN
    (o.response.type = "value" /\ o.status.type = "value") =>
      /\ \A k \in 1..Len(out[s]) :
           out[s][k].result =
             Response(o.response.value, IF o.status.value = NoStatus THEN 200 ELSE o.status.value)
      /\ Len(spy[s]) = Len(out[s])
      /\ \A k \in 1..Len(out[s]) : spy[s][k].request.id = out[s][k].request

\* C3 amended: the same, for a stub that has no non-empty sequential list.
C3_StaticResponse ==
  \A s \in 1..Len(stubs) :
    LET o == stubs[s].options IN
    (o.response.type = "value" /\ o.status.type = "value" /\ ~IsSequential(o)) =>
      /\ \A k \in 1..Len(out[s]) :
           out[s][k].result =
             Response(o.response.value, IF o.status.value = NoStatus THEN 200 ELSE o.status.value)
      /\ Len(spy[s]) = Len(out[s])
      /\ \A k \in 1..Len(out[s]) : spy[s][k].request.id = out[s][k].request

\* C3 witness: a static stub registered without status has answered three requests.
C3_Witness ==
  \E s \in 1..Len(stubs) :
    /\ stubs[s].options = Options(Value("users"), StatusValue(NoStatus), Absent)
    /\ Len(out[s]) = 3
    /\ Len(spy[s]) = 3
    /\ out[s][3].result = Response("users", 200)

\* C4: getServer() returns the stored handle without invoking the loader;
\* else invokes the stored loader exactly once, stores its result as the
\* handle and returns it; else fails with the configuration error.
C4_GetServerOrder ==
  [][GetServerStep =>
       /\ serverInstance # Null =>
            /\ ret' = Ret("getServer", NoError, serverInstance)
            /\ loaderLog' = loaderLog
            /\ serverInstance' = serverInstance
       /\ (serverInstance = Null /\ defaultServerLoader # Null) =>
            /\ Len(loaderLog') = Len(loaderLog) + 1
            /\ loaderLog'[Len(loaderLog')].loader = defaultServerLoader
            /\ LET result == loaderLog'[Len(loaderLog')].outcome IN
               result # Throws =>
                 /\ serverInstance' = result
                 /\ ret' = Ret("getServer", NoError, result)
       /\ (serverInstance = Null /\ defaultServerLoader = Null) =>
            /\ ret' = Ret("getServer", ConfigError, Null)
            /\ loaderLog' = loaderLog
            /\ serverInstance' = Null]_vars

\* C4 witness: getServer() has invoked the loader and returned and stored its result.
C4_Witness ==
  /\ ret.op = "getServer"
  /\ ret.error = NoError
  /\ lastSet = Null
  /\ Len(loaderLog) = 1
  /\ loaderLog[1].outcome = ret.value
  /\ serverInstance = ret.value

\* C5 as stated: successive successful getServer() calls with no setServer or
\* reset in between return the identical handle, and the loader is invoked at
\* most once between two consecutive resets.
C5_Original ==
  /\ Len(got) = 2 => got[1] = got[2]
  /\ Len(loaderLog) <= 1

\* C5 amended: successive successful getServer() calls with no setServer or
\* reset in between return the identical handle, and between two consecutive
\* resets at most one loader invocation returns: every invocation before the
\* last one threw.
C5_SameHandleLoaderReturnsOnce ==
  /\ Len(got) = 2 => got[1] = got[2]
  /\ \A i \in 1..(Len(loaderLog) - 1) : loaderLog[i].outcome = Throws

\* C5 witness: the loader threw, was invoked again and returned, and
\* getServer() has returned twice since.
C5_Witness ==
  /\ Len(got) = 2
  /\ Len(loaderLog) = 2
  /\ loaderLog[2].outcome = got[2]

\* C6: getServer() fails with the fixed configuration-error message whenever
\* neither setServer nor setDefaultServerLoader has been called since process
\* start or since the last reset().
C6_UnconfiguredFails ==
  [][(GetServerStep /\ setup = {}) =>
       /\ ret' = Ret("getServer",
                     "No MSW server configured. Call serverManager.setServer() or serverManager.setDefaultServerLoader() first.",
                     Null)
       /\ loaderLog' = loaderLog]_vars

\* C6 witness: getServer() has failed after a reset() that wiped a registry
\* configured by a handle and by a loader.
C6_Witness ==
  /\ ret = Ret("getServer", ConfigError, Null)
  /\ setup = {}
  /\ cleared = {"setServer", "setDefaultServerLoader"}

\* C7: after setServer(h), until the next setServer or reset, getServer()
\* returns h and invokes no loader, whenever the loader was registered.
C7_SetServerOverridesLoader ==
  [][(GetServerStep /\ lastSet # Null) =>
       /\ ret' = Ret("getServer", NoError, lastSet)
       /\ loaderLog' = loaderLog]_vars

\* C7 witness: getServer() has returned the handle of setServer() while a
\* loader is stored.
C7_Witness ==
  /\ lastSet # Null
  /\ defaultServerLoader # Null
  /\ ret = Ret("getServer", NoError, lastSet)

\* C8: hasServer() returns true exactly when a handle or a loader is stored,
\* invokes no loader and changes neither slot.
C8_HasServerPure ==
  [][HasServer =>
       /\ ret'.op = "hasServer"
       /\ ret'.value = (IF serverInstance # Null \/ defaultServerLoader # Null
                        THEN "true" ELSE "false")
       /\ serverInstance' = serverInstance
       /\ defaultServerLoader' = defaultServerLoader
       /\ loaderLog' = loaderLog]_vars

\* C8 witness: hasServer() has returned true with only a loader stored, which
\* was not invoked.
C8_Witness ==
  /\ ret = Ret("hasServer", NoError, "true")
  /\ serverInstance = Null
  /\ defaultServerLoader # Null
  /\ loaderLog = <<>>

\* What the single response/status specification yields for a recorded call.
SingleResult(o, call) ==
  LET r == IF o.response.type = "function"
           THEN Apply(o.response.name, call) ELSE Returned(o.response.value)
      st == IF o.status.type = "function"
            THEN Apply(o.status.name, call)
            ELSE Returned(IF o.status.value = NoStatus THEN 200 ELSE o.status.value)
  IN IF r.threw THEN Failure
     ELSE IF st.threw THEN Failure
     ELSE Response(r.value, st.value)

\* C9: with a non-empty sequential list the response and status options are
\* never used or invoked and every answer comes from the selected entry (its
\* status, or 200); with the list absent or empty every request is answered
\* from the response and status options.
C9_SequentialPrecedence ==
  \A s \in 1..Len(stubs) :
    LET o == stubs[s].options
        list == o.responses.list
    IN IF o.responses.given /\ list # <<>>
       THEN /\ invocations[s] = <<>>
            /\ \A k \in 1..Len(out[s]) :
                 LET entry == list[Min(k, Len(list))] IN
                 /\ out[s][k].result.kind = "response"
                 /\ out[s][k].result.body = entry.response
                 /\ out[s][k].result.status \in {entry.status, 200} \ {NoStatus}
       ELSE /\ Len(spy[s]) = Len(out[s])
            /\ \A k \in 1..Len(out[s]) : out[s][k].result = SingleResult(o, spy[s][k])
            /\ o.response.type = "function" =>
                 Len(out[s]) =
                   Cardinality({i \in 1..Len(invocations[s]) :
                                  invocations[s][i].provider = "response"})

\* C9 witness: a stub with a list and provider functions has answered twice,
\* and a stub with an empty list has answered from its response option.
C9_Witness ==
  \E s \in 1..Len(stubs), t \in 1..Len(stubs) :
    /\ IsSequential(stubs[s].options)
    /\ stubs[s].options.response.type = "function"
    /\ stubs[s].options.status.type = "function"
    /\ Len(out[s]) = 2
    /\ stubs[t].options.responses = List(<<>>)
    /\ Len(out[t]) = 1
    /\ out[t][1].result = Response("notfound", 404)

\* C10: every resumed handler run leaves its call record in the log, also
\* when its response or status function throws, and the record is in the
\* log when a provider function is invoked.
C10_RecordedUnconditionally ==
  \A s \in 1..Len(stubs) :
    /\ \A k \in 1..Len(out[s]) :
         /\ k <= Len(spy[s])
         /\ spy[s][k].request.id = out[s][k].request
    /\ \A i \in 1..Len(invocations[s]) :
         LET inv == invocations[s][i] IN
         /\ inv.recorded \in 1..Len(spy[s])
         /\ spy[s][inv.recorded].request.id = inv.request

\* C10 witness: a run whose status function threw, after its response
\* function returned, has its record in the log.
C10_Witness ==
  \E s \in 1..Len(stubs) :
    \E k \in 1..Len(out[s]) :
      /\ out[s][k].result = Failure
      /\ k <= Len(spy[s])
      /\ spy[s][k].request.id = out[s][k].request
      /\ \E i \in 1..Len(invocations[s]) :
           /\ invocations[s][i].provider = "status"
           /\ invocations[s][i].request = out[s][k].request

\* The context a recorded call was computed from.
ContextOf(call) == [body |-> call.body, callIndex |-> call.callIndex]

\* A response or status function of the options throws on the context.
ProviderThrows(o, ctx) ==
  \/ o.response.type = "function" /\ Apply(o.response.name, ctx).threw
  \/ o.status.type = "function" /\ Apply(o.status.name, ctx).threw

Count(seq, Test(_)) == Cardinality({j \in DOMAIN seq : Test(seq[j])})

\* C11: when the dynamic response or status function of a stub throws on a
\* request, the handler run fails: no response is emitted for that request,
\* and nothing is retried: the request is recorded and answered once, and
\* each provider function is called at most once for it.
C11_ProviderErrorPropagates ==
  \A s \in 1..Len(stubs) : \A k \in 1..Len(out[s]) :
    LET id == out[s][k].request IN
    (~IsSequential(stubs[s]) /\ ProviderThrows(stubs[s], ContextOf(spy[s][k])))
      => /\ spy[s][k].request.id = id
         /\ out[s][k].result = Failure
         /\ Count(out[s], LAMBDA e : e.request = id) = 1
         /\ Count(spy[s], LAMBDA c : c.request.id = id) = 1
         /\ \A p \in {"response", "status"} :
              Count(invocations[s], LAMBDA i : i.request = id /\ i.provider = p) <= 1

\* A status function threw after the response function had returned, and the
\* stub has handled a later request.
C11_Witness ==
  \E s \in 1..Len(stubs) : \E k \in 1..Len(out[s]) :
    /\ ~IsSequential(stubs[s])
    /\ out[s][k].result = Failure
    /\ \E i \in DOMAIN invocations[s] :
         invocations[s][i].request = out[s][k].request /\ invocations[s][i].provider = "status"
    /\ k < Len(out[s])

\* The requests whose content type is declared as JSON, as form data, as
\* multipart, or not as any of the three, in lower case as the code spells
\* them, with or without parameters.
DeclaredJson(request) ==
  request.contentType \in {"application/json", "application/json; charset=utf-8"}
DeclaredForm(request) == request.contentType = "application/x-www-form-urlencoded"
DeclaredMultipart(request) == request.contentType = "multipart/form-data; boundary=x"
DeclaredOther(request) == request.contentType \in {"", "text/plain"}

IsJson(text) == text \in JsonTexts
IsMultipart(text) == text \in {"--x|name=John|--x--", "--x|tag=a|name=John|tag=b|tag=c|--x--"}

\* The k-th handled request of stub s was recorded, and went through the
\* response computation: it was answered unless a provider function threw.
Handled(s, k) ==
  /\ Len(spy[s]) = Len(out[s])
  /\ spy[s][k].request.id = out[s][k].request
  /\ IF ~IsSequential(stubs[s]) /\ ProviderThrows(stubs[s], ContextOf(spy[s][k]))
     THEN out[s][k].result = Failure
     ELSE out[s][k].result.kind = "response"

\* C12 as stated: a request declared application/json whose body is not JSON
\* fails the handler run, and no response is emitted for it.
C12_Original ==
  \A s \in 1..Len(stubs) : \A k \in 1..Len(out[s]) :
    (DeclaredJson(spy[s][k].request) /\ ~IsJson(spy[s][k].request.text))
      => out[s][k].result = Failure

\* C12, amended: a request declared application/json whose body is not JSON
\* has its parse failure caught by parseBody: the body is undefined, the call
\* is recorded and the response computation goes on as for any request.
C12_JsonErrorSuppressed ==
  \A s \in 1..Len(stubs) : \A k \in 1..Len(out[s]) :
    (DeclaredJson(spy[s][k].request) /\ ~IsJson(spy[s][k].request.text))
      => spy[s][k].body = Undefined /\ Handled(s, k)

\* A malformed JSON body under application/json was answered with the static
\* response of the stub.
C12_Witness ==
  \E s \in 1..Len(stubs) : \E k \in 1..Len(out[s]) :
    /\ spy[s][k].request.contentType = "application/json"
    /\ spy[s][k].request.text = "oops"
    /\ spy[s][k].body = Undefined
    /\ out[s][k].result = Response("users", 200)

\* Parsing the request raises an exception: the body is not what the declared
\* type announces, or the JSON attempt of the text fallback fails.
ParseRaises(request) ==
  \/ DeclaredJson(request) /\ ~IsJson(request.text)
  \/ DeclaredMultipart(request) /\ ~IsMultipart(request.text)
  \/ DeclaredOther(request) /\ request.text # "" /\ ~IsJson(request.text)

\* C13 as stated: whatever the content type and the body of a request, an
\* exception raised while parsing leaves the parsed body undefined, and the
\* handler records the call and emits a response.
C13_Original ==
  \A s \in 1..Len(stubs) : \A k \in 1..Len(out[s]) :
    /\ spy[s][k].request.id = out[s][k].request
    /\ ParseRaises(spy[s][k].request)
         => spy[s][k].body = Undefined /\ out[s][k].result.kind = "response"

\* C13, amended: the body parser never aborts request handling: an exception
\* of the JSON or multipart branch leaves the body undefined, a failed JSON
\* attempt of the text fallback leaves the raw text, and in every case the
\* handler records the call and goes on to compute the response, which is
\* emitted unless a dynamic response or status function throws.
C13_ParserNeverAborts ==
  \A s \in 1..Len(stubs) : \A k \in 1..Len(out[s]) :
    LET request == spy[s][k].request IN
    /\ Handled(s, k)
    /\ ParseRaises(request)
         => spy[s][k].body = IF DeclaredOther(request) THEN request.text ELSE Undefined

\* A multipart request whose body is not made of parts was recorded with an
\* undefined body and answered.
C13_Witness ==
  \E s \in 1..Len(stubs) : \E k \in 1..Len(out[s]) :
    /\ DeclaredMultipart(spy[s][k].request)
    /\ spy[s][k].request.text = "oops"
    /\ spy[s][k].body = Undefined
    /\ out[s][k].result.kind = "response"

\* C14: stubs created by separate stubJsonResponse calls are independent,
\* also when the calls are given the same options: a request handled by one
\* stub changes neither the counter nor the call log of any other stub, and
\* a new stub starts with counter 0 and an empty log, leaving the others as
\* they are.
C14_StubsIndependent ==
  [][ /\ \A run \in inflight :
           Resume(run) =>
             \A t \in (1..Len(stubs)) \ {run.stub} :
               callIndex'[t] = callIndex[t] /\ spy'[t] = spy[t]
      /\ Len(stubs') > Len(stubs) =>
           /\ callIndex'[Len(stubs')] = 0
           /\ spy'[Len(stubs')] = <<>>
           /\ \A t \in 1..Len(stubs) : callIndex'[t] = callIndex[t] /\ spy'[t] = spy[t]
    ]_vars

\* Two stubs registered with the same options have handled different numbers
\* of requests, each with its own counter and log.
C14_Witness ==
  /\ Len(stubs) = 2
  /\ stubs[1].options = stubs[2].options
  /\ callIndex[1] = 2 /\ Len(spy[1]) = 2
  /\ callIndex[2] = 1 /\ Len(spy[2]) = 1
  /\ spy[2][1].callIndex = 0

\* The positions in the log of stub s of the requests it has fully handled.
FullyHandled(s) == {k \in 1..Len(out[s]) : out[s][k].result.kind = "response"}

\* C15: however the requests to one stub interleave at the suspension of
\* the body read, no two fully handled requests observe the same callIndex:
\* the n fully handled requests observe exactly 0..n-1, each once.
C15_DistinctCallIndex ==
  \A s \in 1..Len(stubs) :
    /\ \A j, k \in FullyHandled(s) : j # k => spy[s][j].callIndex # spy[s][k].callIndex
    /\ {spy[s][k].callIndex : k \in FullyHandled(s)} = 0..(Cardinality(FullyHandled(s)) - 1)
    /\ \A i \in DOMAIN invocations[s] :
         invocations[s][i].callIndex = spy[s][invocations[s][i].recorded].callIndex

\* Three requests to one stub were in flight together and were resumed in
\* the reverse of the order they arrived in, each observing its own index.
C15_Witness ==
  \E s \in 1..Len(stubs) :
    /\ FullyHandled(s) = {1, 2, 3}
    /\ spy[s][1].request.id = 3 /\ spy[s][1].callIndex = 0
    /\ spy[s][2].request.id = 2 /\ spy[s][2].callIndex = 1
    /\ spy[s][3].request.id = 1 /\ spy[s][3].callIndex = 2

\* C16: the counter of a stub starts at 0; a step changes it only by adding
\* 1, and only when the stub has fully handled a request in that step, the
\* provider functions having seen the value before the increment; no other
\* operation, serverManager.reset() and the registration of other stubs
\* included, changes it.
C16_CounterMonotonic ==
  [][ /\ \A t \in 1..Len(stubs) :
           LET handledNow ==
                 \E run \in inflight :
                   /\ run.stub = t
                   /\ Resume(run)
                   /\ out'[t][Len(out'[t])].result.kind = "response"
                   /\ \A i \in (Len(invocations[t]) + 1)..Len(invocations'[t]) :
                        invocations'[t][i].callIndex = callIndex[t]
           IN /\ callIndex'[t] = IF handledNow THEN callIndex[t] + 1 ELSE callIndex[t]
      /\ Len(stubs') > Len(stubs) => callIndex'[Len(stubs')] = 0
    ]_vars

\* serverManager.reset() has run after a stub handled two requests, another
\* stub is registered, and the counter of the first is still 2.
C16_Witness ==
  /\ ret.op = "reset"
  /\ Len(stubs) = 2
  /\ callIndex[1] = 2
  /\ callIndex[2] = 0

\* The content types of the model in lower case.
LowerCase(contentType) ==
  CASE contentType = "Application/JSON" -> "application/json"
    [] contentType = "APPLICATION/X-WWW-FORM-URLENCODED" -> "application/x-www-form-urlencoded"
    [] contentType = "Multipart/Form-Data; boundary=x" -> "multipart/form-data; boundary=x"
    [] OTHER -> contentType

\* C17 as stated: the branch is chosen by a case-insensitive substring
\* match in the order JSON, form, multipart, text fallback: a request whose
\* content type differs from a known one only in letter case, or carries
\* parameters, is parsed as the same request with the lower-case type, and a
\* type that names JSON together with another known type is parsed as JSON.
C17_Original ==
  \A s \in 1..Len(stubs) : \A k \in 1..Len(spy[s]) :
    LET request == spy[s][k].request
        lower == [contentType |-> LowerCase(request.contentType), text |-> request.text]
        bare == [contentType |-> "application/json", text |-> request.text]
    IN /\ spy[s][k].body = parseBody(lower)
       /\ request.contentType \in {"application/json; charset=utf-8",
                                    "multipart/form-data; boundary=x; type=application/json"}
            => spy[s][k].body = parseBody(bare)

\* The value a JSON text of the model denotes.
Denoted(text) == IF text = "{'valid':true}" THEN "{valid:true}" ELSE "{valid:false}"

\* C18: a request without a content type, or with one that matches none of
\* the three known types, is parsed to undefined when its text is empty, to
\* the value the text denotes when the text is JSON, and to the raw text
\* when it is not; handling goes on in each case.
C18_TextFallback ==
  \A s \in 1..Len(stubs) : \A k \in 1..Len(out[s]) :
    LET request == spy[s][k].request IN
    DeclaredOther(request) =>
      /\ spy[s][k].body = IF request.text = "" THEN Undefined
                           ELSE IF IsJson(request.text) THEN Denoted(request.text)
                           ELSE request.text
      /\ Handled(s, k)

\* A text/plain body that is not JSON reached a dynamic response function
\* as raw text and was echoed.
C18_Witness ==
  \E s \in 1..Len(stubs) : \E k \in 1..Len(out[s]) :
    /\ spy[s][k].request.contentType = "text/plain"
    /\ spy[s][k].request.text = "name=John&age=30"
    /\ spy[s][k].body = "name=John&age=30"
    /\ out[s][k].result = Response("{echo:name=John&age=30}", 400)

\* The distinct keys of a list of pairs, in the order of their first
\* occurrence, and the values a key is paired with, in order.
KeysOf(pairs) ==
  LET indexed == [i \in DOMAIN pairs |-> [i |-> i, key |-> pairs[i].key]]
      firsts == SelectSeq(indexed, LAMBDA e : \A j \in 1..(e.i - 1) : pairs[j].key # e.key)
  IN [i \in DOMAIN firsts |-> firsts[i].key]

ValuesOf(pairs, key) ==
  LET same == SelectSeq(pairs, LAMBDA e : e.key = key)
  IN [i \in DOMAIN same |-> same[i].value]

C20_FormLastWins ==
  \A s \in 1..Len(stubs) : \A k \in 1..Len(spy[s]) :
    LET request == spy[s][k].request
        pairs == URLSearchParams(request.text)
        keys == KeysOf(pairs)
    IN DeclaredForm(request) =>
         spy[s][k].body =
           Object([i \in DOMAIN keys |->
                     Scalar(keys[i],
                            ValuesOf(pairs, keys[i])[Len(ValuesOf(pairs, keys[i]))])])

\* A form body with the key tag three times was parsed to the last tag alone,
\* a string.
C20_Witness ==
  \E s \in 1..Len(stubs) : \E k \in 1..Len(spy[s]) :
    /\ DeclaredForm(spy[s][k].request)
    /\ spy[s][k].request.text = "tag=a&tag=b&tag=c"
    /\ spy[s][k].body = "{tag:c}"

\* C21: the counter of a stub equals the number of its requests whose
\* response computation completed without throwing, and is at most the
\* length of its call log; a request whose response or status function
\* throws is in the log, and the request recorded after it carries the same
\* callIndex.
C21_CounterCountsCompletions ==
  \A s \in 1..Len(stubs) :
    /\ callIndex[s] = Cardinality({k \in 1..Len(out[s]) : out[s][k].result # Failure})
    /\ callIndex[s] <= Len(spy[s])
    /\ Len(spy[s]) = Len(out[s])
    /\ \A k \in 1..Len(out[s]) :
         out[s][k].result = Failure =>
           /\ spy[s][k].request.id = out[s][k].request
           /\ k < Len(spy[s]) => spy[s][k + 1].callIndex = spy[s][k].callIndex
           /\ k = Len(spy[s]) => callIndex[s] = spy[s][k].callIndex

\* A stub has answered a request, failed on the next and recorded a third
\* with the callIndex of the failed one: three records, counter 2.
C21_Witness ==
  \E s \in 1..Len(stubs) :
    /\ Len(spy[s]) = 3
    /\ out[s][1].result # Failure /\ out[s][2].result = Failure /\ out[s][3].result # Failure
    /\ spy[s][2].callIndex = 1 /\ spy[s][3].callIndex = 1
    /\ callIndex[s] = 2

\* No request of stub s has failed.
NoneFailed(s) == \A k \in 1..Len(out[s]) : out[s][k].result # Failure

\* C22: in a stub none of whose requests fails, the record at position i of
\* the call log (counting from 0) carries callIndex i, however the requests
\* in flight interleave: the run that is resumed appends its record at the
\* end of the log with the next index, whenever its request arrived.
C22_LogOrder ==
  [][ \A run \in inflight :
        (Resume(run) /\ NoneFailed(run.stub)')
          => LET s == run.stub IN
             /\ Len(spy'[s]) = Len(spy[s]) + 1
             /\ SubSeq(spy'[s], 1, Len(spy[s])) = spy[s]
             /\ spy'[s][Len(spy'[s])].request = run.request
             /\ \A i \in 1..Len(spy'[s]) : spy'[s][i].callIndex = i - 1
    ]_vars

\* The request that arrived second was resumed first and recorded with
\* callIndex 0, the one that arrived first with callIndex 1, while a third
\* request to the stub is still suspended.
C22_Witness ==
  \E s \in 1..Len(stubs) :
    /\ NoneFailed(s)
    /\ Len(spy[s]) = 2
    /\ spy[s][1].request.id = 2 /\ spy[s][1].callIndex = 0
    /\ spy[s][2].request.id = 1 /\ spy[s][2].callIndex = 1
    /\ \E run \in inflight : run.stub = s /\ run.request.id = 3

\* C23: a getServer() that fails, for want of any configuration or because
\* the stored loader throws, leaves the registry as it was: the handle slot
\* stays empty and the loader slot keeps its value, so getServer() called
\* next does what it would have done in place of the failed call.
C23_FailingGetServerKeepsRegistry ==
  [][(GetServerStep /\ ret'.error # NoError) =>
       /\ serverInstance = Null /\ serverInstance' = Null
       /\ defaultServerLoader' = defaultServerLoader
       /\ ret'.error = (IF defaultServerLoader = Null THEN ConfigError ELSE LoaderError)
       /\ \A o \in Outcomes : getServer(o)' = getServer(o)]_vars

\* The loader has thrown in two getServer() calls in a row; the registry
\* still holds the loader and no handle.
C23_Witness ==
  /\ ret = Ret("getServer", LoaderError, Null)
  /\ Len(loaderLog) = 2
  /\ loaderLog[1].outcome = Throws /\ loaderLog[2].outcome = Throws
  /\ serverInstance = Null
  /\ defaultServerLoader = "loadAny"

SetLoaderStep == \E loader \in Loaders : SetDefaultServerLoader(loader)

\* The handle in the registry was produced by a loader (no setServer() since
\* the last reset()): by the last loader invocation, which returned it.
CachedFromLoader ==
  /\ serverInstance # Null
  /\ lastSet = Null
  /\ loaderLog # <<>>
  /\ loaderLog[Len(loaderLog)].outcome = serverInstance

\* C24: setDefaultServerLoader never invokes a loader and never changes the
\* handle slot; once getServer() has cached the handle a loader produced,
\* it stays cached whatever loaders are registered afterwards, getServer()
\* returns it and invokes no loader, and only reset() (or setServer())
\* ends this.
C24_CachedHandleSurvivesNewLoader ==
  [][ /\ SetLoaderStep =>
           /\ serverInstance' = serverInstance
           /\ loaderLog' = loaderLog
           /\ CachedFromLoader => CachedFromLoader'
      /\ (GetServerStep /\ CachedFromLoader) =>
           /\ ret' = Ret("getServer", NoError, serverInstance)
           /\ loaderLog' = loaderLog
           /\ CachedFromLoader'
    ]_vars

\* The factory loader produced h2, the loader `() => h1` was registered
\* afterwards, and getServer() has returned h2 again without invoking it.
C24_Witness ==
  /\ CachedFromLoader
  /\ serverInstance = "h2"
  /\ loaderLog = <<[loader |-> "loadAny", outcome |-> "h2"]>>
  /\ defaultServerLoader = "loadH1"
  /\ ret = Ret("getServer", NoError, "h2")
  /\ got = <<"h2", "h2">>

RegisterStep == \E options \in TeardownConfigs, o \in Outcomes : StubJsonResponse(options, o)

\* The step gave the handler of a new stub to server h, and to no other.
RegisteredOn(h) ==
  /\ Len(stubs') = Len(stubs) + 1
  /\ handlers' = [handlers EXCEPT ![h] = Append(@, Len(stubs'))]

\* C25: stubJsonResponse on a registry with neither handle nor loader fails
\* with the configuration error and gives no handler to any server; on a
\* registry with a loader only it invokes the loader once and gives the
\* handler to the server the loader returned, which is stored and which
\* later registrations use without invoking the loader again.
C25_RegistrationUsesGetServer ==
  [][RegisterStep =>
       /\ (serverInstance = Null /\ defaultServerLoader = Null) =>
            /\ ret' = Ret("stubJsonResponse", ConfigError, Null)
            /\ handlers' = handlers /\ stubs' = stubs
            /\ loaderLog' = loaderLog
       /\ (serverInstance = Null /\ defaultServerLoader # Null) =>
            /\ Len(loaderLog') = Len(loaderLog) + 1
            /\ loaderLog'[Len(loaderLog')].loader = defaultServerLoader
            /\ LET result == loaderLog'[Len(loaderLog')].outcome IN
               IF result = Throws
               THEN handlers' = handlers /\ stubs' = stubs /\ serverInstance' = Null
               ELSE RegisteredOn(result) /\ serverInstance' = result
       /\ serverInstance # Null =>
            /\ loaderLog' = loaderLog
            /\ serverInstance' = serverInstance
            /\ RegisteredOn(serverInstance)
    ]_vars

\* Two stubs were registered on a registry holding only the factory loader:
\* the loader ran once and both handlers are on the server it returned.
C25_Witness ==
  /\ lastSet = Null
  /\ loaderLog = <<[loader |-> "loadAny", outcome |-> "h2"]>>
  /\ serverInstance = "h2"
  /\ handlers = [h \in Handles |-> IF h = "h2" THEN <<1, 2>> ELSE <<>>]
  /\ ret = Ret("stubJsonResponse", NoError, "h2")
====
